---- MODULE Spec2Model ----
(***************************************************************************)
(* sn-sync: one Record (one record type, one key) with its bound local     *)
(* files, the remote ServiceNow record it mirrors, the record's cache      *)
(* document on disk and the pull / push / watch workflows of sync.py.      *)
(*                                                                         *)
(* Texts are abstract content identifiers; the md5 digest is modelled as   *)
(* an injective tagging of the text, so hashes and texts are different     *)
(* values and equal hashes mean equal texts.  A key that is absent from a  *)
(* field's meta dict and a key that holds None are both written None:      *)
(* every read in the code (dict.get with default None, the KeyError        *)
(* handler in compare) treats them alike, and update() always writes       *)
(* prev_hash and prev_contents together.                                   *)
(***************************************************************************)
EXTENDS Integers, Sequences, FiniteSets, TLC

VARIABLES
    lfile,       \* field -> text of the bound local file (LocalFile.contents)
    remote,      \* field -> text of the field in the remote record
    disk,        \* the record's cache document: NoMeta when absent
    meta,        \* SNRecord.meta[instance]['fields'] of the running process
    mode,        \* "idle" | "pull" | "push" | "watch"
    pc,          \* position inside the running workflow
    comparison,  \* the list compare() returned for the current record
    idx,         \* index of the comparison entry the loop is at
    events,      \* watch: fields with an undelivered modification event
    confirm,     \* the confirm argument resolve_conflict is run with
    fetched,     \* field -> text the last client.get returned (None before)
    edits,       \* number of operator / third-party edits so far
    runs,        \* number of workflow invocations so far
    last,        \* observation: what the last field step of the loop did
    closed,      \* observation: field -> route by which update_field_meta closed it
    skipped,     \* observation: field -> status it was skipped with, no edit since
    synced,      \* observation: field -> text both sides held when the record
                 \* was last saved, kept while the remote field stays as it is
    client,      \* setup_client: attempts, keyring and HTTP failures of the run
    cache,       \* SNCache: the scanned tree, the documents and the records map
    merge        \* merge3: the three line lists and what the call gave

vars == <<lfile, remote, disk, meta, mode, pc, comparison, idx,
          events, confirm, fetched, edits, runs, last, closed, skipped, synced,
          client, cache, merge>>

\* ---------------------------------------------------------------- bounds
MaxContent == 3
MaxEdits == 2
MaxRuns == 2

\* ------------------------------------------------------------- constants
\* config['fields'] of the record type: two fields, one local file each.
Fields == {"script", "html"}
\* Every value is a <<tag, number>> pair, so that a text, a digest and None
\* can be compared with one another.
Text(c) == <<"text", c>>
Contents == {Text(c) : c \in 1 .. MaxContent}
None == <<"none", 0>>
Raise == <<"raise", 0>>
\* meta without an entry for the instance ({} or a document not on disk)
NoMeta == <<>>
\* ModStatus (LOCAL is a reserved word, hence the prefix)
ModNOCHANGE == "NOCHANGE"
ModLOCAL == "LOCAL"
ModREMOTE == "REMOTE"
ModBOTH == "BOTH"
ModStatus == {ModNOCHANGE, ModLOCAL, ModREMOTE, ModBOTH}

\* hashlib.md5(...).hexdigest(): injective on the texts of the model.
MD5(text) == <<"md5", text[2]>>

EmptyField == [hash |-> None, contents |-> None,
               prev_hash |-> None, prev_contents |-> None]

\* ----------------------------------------------------------- cache.py
\* mutant: the baseline is taken from the value just fetched
update_field_snapshots_fetched(cfield, value) ==
    LET chash == cfield.hash
        phash == cfield.prev_hash
        rhash == MD5(value)
        snapshot == phash = None /\ chash # rhash
    IN  [hash |-> rhash,
         contents |-> value,
         prev_hash |-> IF snapshot THEN rhash ELSE cfield.prev_hash,
         prev_contents |-> IF snapshot THEN value
                           ELSE cfield.prev_contents]

\* mutant: every change of the hash moves the baseline
update_field_always_snapshots(cfield, value) ==
    LET chash == cfield.hash
        rhash == MD5(value)
        snapshot == chash # rhash
    IN  [hash |-> rhash,
         contents |-> value,
         prev_hash |-> IF snapshot THEN chash ELSE cfield.prev_hash,
         prev_contents |-> IF snapshot THEN cfield.contents
                           ELSE cfield.prev_contents]

\* SNRecord.update, the body of the loop over the configured fields.
update_field(cfield, value) ==
    LET chash == cfield.hash
        phash == cfield.prev_hash
        rhash == MD5(value)
        snapshot == phash = None /\ chash # rhash
    IN  [hash |-> rhash,
         contents |-> value,
         prev_hash |-> IF snapshot THEN chash ELSE cfield.prev_hash,
         prev_contents |-> IF snapshot THEN cfield.contents
                           ELSE cfield.prev_contents]

\* SNRecord.update(instance, meta): creates the instance and field entries
\* that are missing, then updates every configured field.
update(m, record) ==
    LET fields == IF m = NoMeta THEN [f \in Fields |-> EmptyField] ELSE m
    IN  [f \in Fields |-> update_field(fields[f], record[f])]

\* mutant: only the contents are copied into the baseline
update_field_meta_contents_only(m, name) ==
    [m EXCEPT ![name].prev_contents = m[name].contents]

\* mutant: the baseline is left as it was
update_field_meta_noop(m, name) == m

\* SNRecord.update_field_meta(instance, name)
update_field_meta(m, name) ==
    [m EXCEPT ![name].prev_hash = m[name].hash,
              ![name].prev_contents = m[name].contents]

\* mutant: the remote-change test comes first and lacks the inequality
classify_remote_first(local_hash, remote_hash, prev_remote_hash) ==
    IF prev_remote_hash = None \/ local_hash = prev_remote_hash THEN ModREMOTE
    ELSE IF local_hash = remote_hash THEN ModNOCHANGE
    ELSE IF remote_hash = prev_remote_hash THEN ModLOCAL
    ELSE ModBOTH

\* mutant: case 3 tests the local hash against the baseline
classify_case3_local(local_hash, remote_hash, prev_remote_hash) ==
    IF local_hash = remote_hash THEN ModNOCHANGE
    ELSE IF prev_remote_hash = None \/ remote_hash = prev_remote_hash
         THEN ModREMOTE
    ELSE IF local_hash = prev_remote_hash THEN ModLOCAL
    ELSE ModBOTH

\* mutant: a missing baseline is not treated as a remote change
classify_no_none(local_hash, remote_hash, prev_remote_hash) ==
    IF local_hash = remote_hash THEN ModNOCHANGE
    ELSE IF local_hash = prev_remote_hash THEN ModREMOTE
    ELSE IF remote_hash = prev_remote_hash THEN ModLOCAL
    ELSE ModBOTH

\* mutant: equal hashes count as a local change
classify_equal_is_local(local_hash, remote_hash, prev_remote_hash) ==
    IF local_hash = remote_hash THEN ModLOCAL
    ELSE IF local_hash # remote_hash
            /\ (prev_remote_hash = None \/ local_hash = prev_remote_hash)
         THEN ModREMOTE
    ELSE IF local_hash # remote_hash /\ remote_hash = prev_remote_hash
         THEN ModLOCAL
    ELSE IF local_hash # remote_hash /\ remote_hash # prev_remote_hash
         THEN ModBOTH
    ELSE "NOENTRY"

\* The if / elif cascade of SNRecord.compare for one field; "NOENTRY" when
\* no branch appends to the comparison list.
classify(local_hash, remote_hash, prev_remote_hash) ==
    IF local_hash = remote_hash THEN ModNOCHANGE
    ELSE IF local_hash # remote_hash
            /\ (prev_remote_hash = None \/ local_hash = prev_remote_hash)
         THEN ModREMOTE
    ELSE IF local_hash # remote_hash /\ remote_hash = prev_remote_hash
         THEN ModLOCAL
    ELSE IF local_hash # remote_hash /\ remote_hash # prev_remote_hash
         THEN ModBOTH
    ELSE "NOENTRY"

\* SNRecord.compare(instance, files): order is the iteration order of
\* check_fields; each entry also keeps the three hashes compare logged.
compare(m, files, order) ==
    LET entry(i) ==
            LET name == order[i]
                lh == MD5(files[name])
                rh == m[name].hash
                ph == m[name].prev_hash
            IN  [name |-> name, status |-> classify(lh, rh, ph),
                 local_hash |-> lh, remote_hash |-> rh, prev_hash |-> ph]
        all == [i \in 1 .. Len(order) |-> entry(i)]
    IN  SelectSeq(all, LAMBDA e : e.status # "NOENTRY")

\* ----------------------------------------------------------- merge.py
\* merge3_has_conflict(mine, base, your), the name sync.py imports; merge.py
\* does not define it, so its result follows the merge engine's contract:
\* a side that equals base yields the other side, equal sides yield that
\* side, and two different changes yield either a clean merge (some text)
\* or a conflict whose marked text goes to the editor.
merge3_has_conflict(mine, base, your) ==
    IF mine = your THEN {[had_conflict |-> FALSE, contents |-> mine]}
    ELSE IF base = mine THEN {[had_conflict |-> FALSE, contents |-> your]}
    ELSE IF base = your THEN {[had_conflict |-> FALSE, contents |-> mine]}
    ELSE {[had_conflict |-> FALSE, contents |-> c] : c \in Contents}
         \cup {[had_conflict |-> TRUE, contents |-> mine]}

\* ------------------------------------------------------------- sync.py
\* What click.prompt returns after action[0]; what click.edit returns
\* (None when the editor is closed without saving, otherwise the text of
\* the saved file, which may be the empty string).
Answers == {"o", "m", "s"}
Empty == Text(0)
Edited == Contents \cup {Empty, None}

\* mutant: skip falls through to a result that was initialised to local
resolve_conflict_skip_local(base, local, remote_, confirm_, prefer, answer, merged, edited) ==
    LET action == IF confirm_ THEN answer ELSE "s"
    IN  IF action = "o"
        THEN IF prefer = "local" THEN local ELSE remote_
        ELSE IF action = "m"
        THEN IF base = None THEN Raise
             ELSE IF merged.had_conflict THEN edited
             ELSE merged.contents
        ELSE local

\* mutant: the answer is used although confirm is False
resolve_conflict_ignores_confirm(base, local, remote_, confirm_, prefer, answer, merged, edited) ==
    IF answer = "o"
    THEN IF prefer = "local" THEN local ELSE remote_
    ELSE IF answer = "m"
    THEN IF base = None THEN Raise
         ELSE IF merged.had_conflict THEN edited
         ELSE merged.contents
    ELSE None

\* mutant: overwrite takes the side that is not preferred
resolve_conflict_prefer_swapped(base, local, remote_, confirm_, prefer, answer, merged, edited) ==
    LET action == IF confirm_ THEN answer ELSE "s"
    IN  IF action = "o"
        THEN IF prefer = "local" THEN remote_ ELSE local
        ELSE IF action = "m"
        THEN IF base = None THEN Raise
             ELSE IF merged.had_conflict THEN edited
             ELSE merged.contents
        ELSE None

\* resolve_conflict(base, local, remote, confirm, prefer); answer, merged
\* and edited are the operator's prompt answer, the merge engine's result
\* and the editor's result.  Raise: base.splitlines on None.
resolve_conflict(base, local, remote_, confirm_, prefer, answer, merged, edited) ==
    LET action == IF confirm_ THEN answer ELSE "s"
    IN  IF action = "o"
        THEN IF prefer = "local" THEN local
             ELSE IF prefer = "remote" THEN remote_
             ELSE None
        ELSE IF action = "m"
        THEN IF base = None THEN Raise
             ELSE IF merged.had_conflict THEN edited
             ELSE merged.contents
        ELSE IF ~confirm_ \/ action = "s" THEN None
        ELSE None

\* The inputs one call of resolve_conflict(base, local, remote) can meet:
\* the answer, and for "m" the merge result and, on a conflict, the edit.
NoInput == [answer |-> "none", merged |-> [had_conflict |-> FALSE, contents |-> None],
            edited |-> None]
ResolveInputs(base, local, remote_) ==
    {[NoInput EXCEPT !.answer = a] : a \in {"o", "s"}}
    \cup {[answer |-> "m", merged |-> m, edited |-> None] :
             m \in {x \in merge3_has_conflict(local, base, remote_) : ~x.had_conflict}}
    \cup {[answer |-> "m", merged |-> m, edited |-> ed] :
             m \in {x \in merge3_has_conflict(local, base, remote_) : x.had_conflict},
             ed \in Edited}

\* update_meta(client, record, instance): client.get, then record.update
update_meta(m) == update(m, remote)

\* do_pull: the statuses that go to resolve_conflict, the arguments of the
\* call, and the contents taken when the field changed remotely only.
pull_resolves(status) == status = ModLOCAL \/ status = ModBOTH
pull_args(field, file) ==
    [base |-> field.prev_contents, local |-> file, remote |-> field.contents,
     prefer |-> "remote"]
\* mutant: the local text is taken, as push does
pull_direct_local(field, file) == file
pull_direct(field, file) == field.contents

\* do_push and on_modified: the same three.
push_resolves(status) == status = ModREMOTE \/ status = ModBOTH
\* mutant: local and remote are passed in each other's place
push_args_swapped(field, file) ==
    [base |-> field.prev_contents, local |-> field.contents, remote |-> file,
     prefer |-> "local"]
push_args(field, file) ==
    [base |-> field.prev_contents, local |-> file, remote |-> field.contents,
     prefer |-> "local"]
push_direct(field, file) == file

\* SNSyncHandler.on_modified: the same three, from the handler's own code.
watch_resolves(status) == status = ModREMOTE \/ status = ModBOTH
\* mutant: the handler prefers the remote side, as pull does
watch_args_prefer_remote(field, file) ==
    [base |-> field.prev_contents, local |-> file, remote |-> field.contents,
     prefer |-> "remote"]
watch_args(field, file) ==
    [base |-> field.prev_contents, local |-> file, remote |-> field.contents,
     prefer |-> "local"]
watch_direct(field, file) == file

\* SNSyncHandler.dispatch: the event of a directory, which is dropped
Dir == "."

\* The iteration orders compare() can be given: every bound field (files
\* is empty) or the fields of the files listed, in either order.
Orders == {<<f>> : f \in Fields}
          \cup {<<p[1], p[2]>> : p \in {q \in Fields \X Fields : q[1] # q[2]}}

NoLast == [op |-> "none"]

\* observation of one field step: the entry, the call of resolve_conflict
\* (if any), what was written where, and the field before and after.
Observe(op, e, resolved, args, in, result, saved, sent, ufm, on) ==
    [op |-> op, name |-> e.name, status |-> e.status, seen |-> e,
     resolved |-> resolved,
     args |-> IF resolved THEN args
              ELSE [base |-> None, local |-> None, remote |-> None,
                    prefer |-> "none"],
     confirm |-> confirm,
     answer |-> IF resolved THEN in.answer ELSE "none",
     input |-> in,
     result |-> result, saved |-> saved, sent |-> sent, ufm |-> ufm,
     went_on |-> on,
     fetched |-> fetched[e.name],
     pre_file |-> lfile[e.name], pre_remote |-> remote[e.name],
     pre_field |-> meta[e.name],
     post_file |-> lfile'[e.name], post_remote |-> remote'[e.name],
     post_field |-> IF meta' = NoMeta THEN EmptyField ELSE meta'[e.name]]

Open == <<"none", "open">>

\* closed[f]: the route of the last update_field_meta on f, kept while the
\* local file and the stored remote hash stay as they were at the call.
NextClosed(called, route) ==
    [f \in Fields |->
        IF f = called THEN route
        ELSE IF closed[f] # Open /\ lfile'[f] = lfile[f]
                /\ meta # NoMeta /\ meta' # NoMeta
                /\ meta'[f].hash = meta[f].hash
             THEN closed[f]
        ELSE Open]

\* skipped[f]: the status f was skipped with, kept while neither side of f
\* is edited and no later step acts on f.
NextSkipped(name, status) ==
    [f \in Fields |->
        IF f = name THEN status
        ELSE IF lfile'[f] = lfile[f] /\ remote'[f] = remote[f] THEN skipped[f]
        ELSE "no"]

\* A skip is remembered when nothing has touched the field since compare
\* classified it: both texts and the stored hashes are those of the entry.
SkipOf(e) ==
    IF /\ e.local_hash = MD5(lfile[e.name])
       /\ e.remote_hash = MD5(remote[e.name])
       /\ e.remote_hash = meta[e.name].hash
       /\ e.prev_hash = meta[e.name].prev_hash
    THEN NextSkipped(e.name, e.status)
    ELSE NextSkipped(e.name, "no")

\* synced[f]: kept while nothing rewrites the remote field.
NextSynced ==
    [f \in Fields |-> IF remote'[f] = remote[f] THEN synced[f] ELSE None]

\* synced[f] at record.save(): the text of f when the local file, the remote
\* field and the hash stored for it all agree, None otherwise.
SavedSynced ==
    [f \in Fields |->
        IF MD5(lfile[f]) = meta[f].hash /\ remote[f] = meta[f].contents
        THEN lfile[f] ELSE None]

Route(op, resolved, answer) ==
    <<op, IF ~resolved THEN "direct" ELSE IF answer = "o" THEN "overwrite" ELSE "merge">>

\* The client of a run whose setup_client returned at the first attempt and
\* whose remote calls all succeed.
NoClient == [state |-> "off", attempt |-> 0, keyring |-> "stored",
             probe |-> "none", failed |-> FALSE]
\* setup_client has returned a client and the workflow has not used it yet
Authenticated == client.state \in {"off", "ok"}
ClientInUse == IF client.state = "off" THEN client
               ELSE [client EXCEPT !.state = "run", !.attempt = 0,
                                   !.probe = "none"]
\* for x in range(3)
Attempts == 3
\* What client.get('invalid_table') can end in: a response, HTTPError with
\* status 401, HTTPError with another status, or an exception that is not
\* an HTTPError (no connection).
Probes == {"ok", "401", "http", "conn"}
\* client.update and client.get in the run: True when the call returns
Outcomes == IF client.state = "off" THEN {TRUE} ELSE {TRUE, FALSE}
\* resp.raise_for_status() has raised in a call of the run
Failed == [client EXCEPT !.state = "HTTPError", !.failed = TRUE]

\* The values cache and merge hold while the workflows run.
NoCache == [pc |-> "off"]
NoMerge == [pc |-> "off"]

\* A record that was synchronised once: the document a first run saves
\* when the remote field holds text.
SyncedOnce(text) ==
    [f \in Fields |-> update_field(EmptyField, text)]

InitWith(confirm_) ==
    /\ remote = [f \in Fields |-> Text(1)]
    /\ lfile \in [Fields -> {Text(1), Text(2)}]
    /\ disk \in {NoMeta, SyncedOnce(Text(1))}
    /\ meta = NoMeta
    /\ mode = "idle"
    /\ pc = "idle"
    /\ comparison = <<>>
    /\ idx = 0
    /\ events = {}
    /\ confirm = confirm_
    /\ fetched = [f \in Fields |-> None]
    /\ edits = 0
    /\ runs = 0
    /\ last = NoLast
    /\ closed = [f \in Fields |-> Open]
    /\ skipped = [f \in Fields |-> "no"]
    /\ synced = [f \in Fields |-> None]

\* resolve_conflict's confirm parameter defaults to True and no caller in
\* sync.py passes it.
Init ==
    InitWith(TRUE) /\ client = NoClient /\ cache = NoCache /\ merge = NoMerge

\* The operator (or a program of theirs) rewrites a local file.
LocalEdit ==
    \E f \in Fields, c \in Contents :
        /\ edits < MaxEdits
        /\ c # lfile[f]
        /\ lfile' = [lfile EXCEPT ![f] = c]
        /\ \E also \in {{}, {Dir}} :
              events' = IF mode = "watch" THEN events \cup {f} \cup also
                        ELSE events
        /\ edits' = edits + 1
        /\ last' = IF pc = "refetch" THEN last ELSE NoLast
        /\ UNCHANGED <<remote, disk, meta, mode, pc, comparison, idx,
                       confirm, fetched, runs, client, cache, synced, merge>>
        /\ closed' = NextClosed("none", Open)
        /\ skipped' = NextSkipped("none", "no")

\* Somebody changes the field in the ServiceNow instance.
RemoteEdit ==
    \E f \in Fields, c \in Contents :
        /\ edits < MaxEdits
        /\ c # remote[f]
        /\ remote' = [remote EXCEPT ![f] = c]
        /\ edits' = edits + 1
        /\ last' = IF pc = "refetch" THEN last ELSE NoLast
        /\ UNCHANGED <<lfile, disk, meta, mode, pc, comparison, idx,
                       events, confirm, fetched, runs, client, cache, merge>>
        /\ closed' = NextClosed("none", Open)
        /\ skipped' = NextSkipped("none", "no")
        /\ synced' = NextSynced

\* A workflow's process starts: cache.scan() loads the record's document
\* (load_record), then the first update_meta and compare of the loop.
StartRun(op, order) ==
    /\ mode = "idle"
    /\ runs < MaxRuns
    /\ Authenticated
    /\ client' = ClientInUse
    /\ runs' = runs + 1
    /\ mode' = op
    /\ meta' = update_meta(disk)
    /\ fetched' = remote
    /\ comparison' = compare(meta', lfile, order)
    /\ idx' = 1
    /\ pc' = "loop"
    /\ last' = NoLast
    /\ closed' = [f \in Fields |-> Open]
    /\ skipped' = skipped
    /\ UNCHANGED <<lfile, remote, disk, events, confirm, edits, cache, synced, merge>>

\* The process dies on an uncaught exception: nothing is saved.  In watch
\* the observer thread dies and the main thread sleeps on.
Crashed(op) ==
    /\ mode' = IF op = "watch" THEN "watch" ELSE "idle"
    /\ pc' = IF op = "watch" THEN "dead" ELSE "idle"
    /\ meta' = IF op = "watch" THEN meta ELSE NoMeta
    /\ comparison' = <<>>
    /\ idx' = 0

\* do_pull(config, cache, instance, files): start
do_pull ==
    \E order \in Orders : StartRun("pull", order)

\* do_pull, one iteration of the loop over record.compare(...)
do_pull_field ==
    /\ mode = "pull" /\ pc = "loop" /\ idx <= Len(comparison)
    /\ UNCHANGED <<remote, disk, events, confirm, fetched, edits, runs,
                   client, cache, synced, merge>>
    /\ LET e == comparison[idx]
           field == meta[e.name]
           resolved == e.status # ModNOCHANGE /\ pull_resolves(e.status)
           args == pull_args(field, lfile[e.name])
       IN \E in \in IF resolved
                    THEN ResolveInputs(args.base, args.local, args.remote)
                    ELSE {NoInput} :
          LET result == IF resolved
                        THEN resolve_conflict(args.base, args.local, args.remote,
                                 confirm, args.prefer,
                                 in.answer, in.merged, in.edited)
                        ELSE None
              contents == IF resolved THEN result
                          ELSE IF e.status = ModREMOTE
                               THEN pull_direct(field, lfile[e.name])
                          ELSE None
          IN  IF e.status = ModNOCHANGE \/ (resolved /\ result = None)
              THEN /\ idx' = idx + 1
                   /\ UNCHANGED <<lfile, meta, mode, pc, comparison>>
                   /\ skipped' = IF resolved THEN SkipOf(e)
                                 ELSE NextSkipped("none", "no")
                   /\ closed' = closed
                   /\ last' = Observe("pull", e, resolved, args, in,
                                      result, None, None, FALSE, TRUE)
              ELSE IF result = Raise
              THEN /\ Crashed("pull")
                   /\ UNCHANGED lfile
                   /\ closed' = [f \in Fields |-> Open]
                   /\ skipped' = skipped
                   /\ last' = Observe("pull", e, resolved, args, in,
                                      result, None, None, FALSE, FALSE)
              ELSE /\ lfile' = [lfile EXCEPT ![e.name] = contents]
                   /\ meta' = update_field_meta(meta, e.name)
                   /\ idx' = idx + 1
                   /\ UNCHANGED <<mode, pc, comparison>>
                   /\ closed' = NextClosed(e.name, Route("pull", resolved, in.answer))
                   /\ skipped' = NextSkipped(e.name, "no")
                   /\ last' = Observe("pull", e, resolved, args, in,
                                      result, contents, None, TRUE, TRUE)

\* The loop body of do_push and of SNSyncHandler.on_modified up to
\* client.update: the two bodies are the same code, op tells them apart
\* (in watch the observer sees the handler's own file.save as an event).
push_field(op) ==
    /\ mode = op /\ pc = "loop" /\ idx <= Len(comparison)
    /\ UNCHANGED <<disk, confirm, fetched, edits, runs, cache, merge>>
    /\ LET e == comparison[idx]
           field == meta[e.name]
           resolved == /\ e.status # ModNOCHANGE
                       /\ IF op = "watch" THEN watch_resolves(e.status)
                          ELSE push_resolves(e.status)
           args == IF op = "watch" THEN watch_args(field, lfile[e.name])
                   ELSE push_args(field, lfile[e.name])
       IN \E in \in IF resolved
                    THEN ResolveInputs(args.base, args.local, args.remote)
                    ELSE {NoInput} :
          LET result == IF resolved
                        THEN resolve_conflict(args.base, args.local, args.remote,
                                 confirm, args.prefer,
                                 in.answer, in.merged, in.edited)
                        ELSE None
              contents == IF resolved THEN result
                          ELSE IF e.status = ModLOCAL
                               THEN IF op = "watch"
                                    THEN watch_direct(field, lfile[e.name])
                                    ELSE push_direct(field, lfile[e.name])
                          ELSE None
          IN  IF e.status = ModNOCHANGE \/ (resolved /\ result = None)
              THEN /\ idx' = idx + 1
                   /\ UNCHANGED <<lfile, remote, meta, mode, pc, comparison, events,
                                  client>>
                   /\ skipped' = IF resolved THEN SkipOf(e)
                                 ELSE NextSkipped("none", "no")
                   /\ closed' = closed
                   /\ last' = Observe(op, e, resolved, args, in,
                                      result, None, None, FALSE, TRUE)
              ELSE IF result = Raise
              THEN /\ Crashed(op)
                   /\ UNCHANGED <<lfile, remote, client>>
                   /\ events' = IF op = "watch" THEN events ELSE {}
                   /\ closed' = [f \in Fields |-> Open]
                   /\ skipped' = skipped
                   /\ last' = Observe(op, e, resolved, args, in,
                                      result, None, None, FALSE, FALSE)
              ELSE \E sent \in Outcomes :
                   /\ lfile' = [lfile EXCEPT ![e.name] = contents]
                   /\ events' \in IF op = "watch"
                                   THEN {events \cup {e.name} \cup also :
                                            also \in {{}, {Dir}}}
                                   ELSE {events}
                   /\ IF sent
                      THEN /\ remote' = [remote EXCEPT ![e.name] = contents]
                           /\ pc' = "refetch"
                           /\ UNCHANGED <<meta, mode, comparison, idx, client>>
                      ELSE /\ remote' = remote
                           /\ Crashed(op)
                           /\ client' = Failed
                   /\ closed' = NextClosed("none", Open)
                   /\ skipped' = NextSkipped(e.name, "no")
                   /\ last' = Observe(op, e, resolved, args, in, result, contents,
                                      IF sent THEN contents ELSE None, FALSE, sent)
    /\ synced' = NextSynced

\* mutant: the body ends after update_meta, update_field_meta is not called
push_refetch_without_ufm(op) ==
    /\ mode = op /\ pc = "refetch"
    /\ meta' = update_meta(meta)
    /\ fetched' = remote
    /\ idx' = idx + 1
    /\ pc' = "loop"
    /\ UNCHANGED <<lfile, remote, disk, mode, comparison, events, confirm,
                   edits, runs, skipped, client, cache, synced, merge>>
    /\ closed' = NextClosed("none", Open)
    /\ last' = [last EXCEPT !.post_field = meta'[last.name]]

\* ... and from the update_meta after client.update to the end of the body.
push_refetch(op) ==
    /\ mode = op /\ pc = "refetch"
    /\ meta' = update_field_meta(update_meta(meta), comparison[idx].name)
    /\ fetched' = remote
    /\ idx' = idx + 1
    /\ pc' = "loop"
    /\ UNCHANGED <<lfile, remote, disk, mode, comparison, events, confirm,
                   edits, runs, skipped, client, cache, synced, merge>>
    /\ closed' = NextClosed(last.name, Route(op, last.resolved, last.answer))
    /\ last' = [last EXCEPT !.ufm = TRUE, !.post_field = meta'[last.name]]

\* do_push(config, cache, instance, files): start
do_push ==
    \E order \in Orders : StartRun("push", order)

do_push_field == push_field("push")

do_push_refetch == push_refetch("push")

\* record.save() after the loop, then the process ends.
RunSave ==
    /\ mode \in {"pull", "push"} /\ pc = "loop" /\ idx > Len(comparison)
    /\ disk' = meta
    /\ mode' = "idle"
    /\ pc' = "idle"
    /\ meta' = NoMeta
    /\ fetched' = [f \in Fields |-> None]
    /\ comparison' = <<>>
    /\ idx' = 0
    /\ last' = NoLast
    /\ closed' = [f \in Fields |-> Open]
    /\ synced' = SavedSynced
    /\ UNCHANGED <<lfile, remote, events, confirm, edits, runs, skipped,
                   client, cache, merge>>

\* do_watch: one update_meta per record, then the observer runs.
do_watch ==
    /\ mode = "idle"
    /\ runs < MaxRuns
    /\ Authenticated
    /\ client' = ClientInUse
    /\ runs' = runs + 1
    /\ mode' = "watch"
    /\ pc' = "wait"
    /\ meta' = update_meta(disk)
    /\ fetched' = remote
    /\ last' = NoLast
    /\ closed' = [f \in Fields |-> Open]
    /\ UNCHANGED <<lfile, remote, disk, comparison, idx, events, confirm,
                   edits, skipped, cache, synced, merge>>

\* mutant: an event is handed to the handler while a handler is running
on_modified_overlapping ==
    /\ mode = "watch" /\ pc \in {"wait", "loop", "refetch"}
    /\ \E p \in events \cap Fields :
        /\ events' = events \ {p}
        /\ meta' = update_meta(meta)
        /\ fetched' = remote
        /\ comparison' = compare(meta', lfile, <<p>>)
        /\ idx' = 1
        /\ pc' = "loop"
        /\ last' = NoLast
        /\ UNCHANGED <<lfile, remote, disk, mode, confirm, edits, runs, skipped,
                       client, cache, synced, merge>>
        /\ closed' = NextClosed("none", Open)

\* SNSyncHandler.on_modified(event): update_meta and compare for the file.
\* do_watch starts one Observer with one handler; the observer's thread
\* takes one event at a time from its queue and calls the handler, so the
\* next event is taken when the handler has returned (pc = "wait").
on_modified ==
    /\ mode = "watch" /\ pc = "wait"
    /\ \E p \in events \cap Fields :
        /\ events' = events \ {p}
        /\ meta' = update_meta(meta)
        /\ fetched' = remote
        /\ comparison' = compare(meta', lfile, <<p>>)
        /\ idx' = 1
        /\ pc' = "loop"
        /\ last' = NoLast
        /\ UNCHANGED <<lfile, remote, disk, mode, confirm, edits, runs, skipped,
                       client, cache, synced, merge>>
        /\ closed' = NextClosed("none", Open)

\* mutant: the event of a directory reaches on_modified, which fetches
dispatch_directory_handled ==
    /\ mode = "watch" /\ pc = "wait"
    /\ Dir \in events
    /\ events' = events \ {Dir}
    /\ meta' = update_meta(meta)
    /\ fetched' = remote
    /\ UNCHANGED <<lfile, remote, disk, mode, pc, comparison, idx, confirm,
                   edits, runs, last, skipped, client, cache, synced, merge>>
    /\ closed' = NextClosed("none", Open)

\* SNSyncHandler.dispatch(event) with event.is_directory: return
dispatch_directory ==
    /\ mode = "watch" /\ pc = "wait"
    /\ Dir \in events
    /\ events' = events \ {Dir}
    /\ UNCHANGED <<lfile, remote, disk, meta, mode, pc, comparison, idx,
                   confirm, fetched, edits, runs, last, closed, skipped,
                   client, cache, synced, merge>>

on_modified_field == push_field("watch")

on_modified_refetch == push_refetch("watch")

\* record.save() at the end of on_modified
on_modified_save ==
    /\ mode = "watch" /\ pc = "loop" /\ idx > Len(comparison)
    /\ disk' = meta
    /\ pc' = "wait"
    /\ comparison' = <<>>
    /\ idx' = 0
    /\ last' = NoLast
    /\ synced' = SavedSynced
    /\ UNCHANGED <<lfile, remote, meta, mode, events, confirm, fetched,
                   edits, runs, closed, skipped, client, cache, merge>>

\* KeyboardInterrupt: observer.stop(), observer.join(), the process ends.
StopWatch ==
    /\ mode = "watch" /\ pc \in {"wait", "dead"}
    /\ mode' = "idle"
    /\ pc' = "idle"
    /\ meta' = NoMeta
    /\ fetched' = [f \in Fields |-> None]
    /\ events' = {}
    /\ last' = NoLast
    /\ closed' = [f \in Fields |-> Open]
    /\ UNCHANGED <<lfile, remote, disk, comparison, idx, confirm, edits,
                   runs, skipped, client, cache, synced, merge>>

\* The files argument of get_files: None (the default) or a list of paths,
\* a path being named by the field it is bound to in this record, or
\* "other" for a file of another record.
NoFiles == [given |-> FALSE, paths |-> <<>>]
Listed(paths) == [given |-> TRUE, paths |-> paths]

\* The loop of get_files over lfile_field_map.items(): files was set to []
\* and is the list the results are appended to, so 'files is not None'
\* holds and the inner loop runs over the results so far; its first turn
\* calls the undefined name contains_file (NameError).
RECURSIVE get_files_loop(_, _, _)
get_files_loop(bound, i, files) ==
    IF i > Len(bound) THEN [raised |-> "no", files |-> files]
    ELSE IF files # <<>> THEN [raised |-> "NameError", files |-> files]
    ELSE get_files_loop(bound, i + 1, Append(files, bound[i]))

\* SNRecord.get_files(files): the parameter is overwritten with the result
\* list before it is read; bound is lfile_field_map in insertion order.
get_files(bound, files) == get_files_loop(bound, 1, <<>>)

\* The two orders lfile_field_map can hold the bound fields in.
BoundOrders == {o \in Orders : Len(o) = Cardinality(Fields)}

\* get_status and do_diff up to the end of update_meta: both fetch and
\* apply the remote meta to the record in memory; get_status then compares.
StartView(op, order) ==
    /\ mode = "idle"
    /\ runs < MaxRuns
    /\ Authenticated
    /\ client' = ClientInUse
    /\ runs' = runs + 1
    /\ mode' = op
    /\ meta' = update_meta(disk)
    /\ fetched' = remote
    /\ comparison' = IF op = "status" THEN compare(meta', lfile, order) ELSE <<>>
    /\ idx' = 1
    /\ pc' = "render"
    /\ last' = NoLast
    /\ closed' = [f \in Fields |-> Open]
    /\ UNCHANGED <<lfile, remote, disk, events, confirm, edits, skipped,
                   cache, synced, merge>>

\* mutant: the record is saved when the view ends
EndView_saves(op) ==
    /\ mode = op /\ pc = "render"
    /\ mode' = "idle"
    /\ pc' = "idle"
    /\ disk' = meta
    /\ meta' = NoMeta
    /\ fetched' = [f \in Fields |-> None]
    /\ comparison' = <<>>
    /\ idx' = 0
    /\ UNCHANGED <<lfile, remote, events, confirm, edits, runs, last,
                   closed, skipped, client, cache, synced, merge>>

\* The rest of get_status and do_diff: the lists are built and echoed (or
\* get_files raises), and the process ends with the record unsaved.
EndView(op) ==
    /\ mode = op /\ pc = "render"
    /\ mode' = "idle"
    /\ pc' = "idle"
    /\ meta' = NoMeta
    /\ fetched' = [f \in Fields |-> None]
    /\ comparison' = <<>>
    /\ idx' = 0
    /\ UNCHANGED <<lfile, remote, disk, events, confirm, edits, runs, last,
                   closed, skipped, client, cache, synced, merge>>

\* get_status(config, cache, instance)
get_status ==
    \E order \in BoundOrders : StartView("status", order)

get_status_render == EndView("status")

\* do_diff(config, cache, instance, files)
do_diff ==
    \E order \in BoundOrders : StartView("diff", order)

\* do_diff from record.get_files on: a diff per file, or the NameError
do_diff_render ==
    /\ \E order \in BoundOrders :
          get_files(order, NoFiles).raised \in {"no", "NameError"}
    /\ EndView("diff")

Next ==
    \/ LocalEdit
    \/ RemoteEdit
    \/ do_pull
    \/ do_pull_field
    \/ do_push
    \/ do_push_field
    \/ do_push_refetch
    \/ RunSave
    \/ do_watch
    \/ dispatch_directory
    \/ on_modified
    \/ on_modified_field
    \/ on_modified_refetch
    \/ on_modified_save
    \/ StopWatch
    \/ get_status
    \/ get_status_render
    \/ do_diff
    \/ do_diff_render

Spec == Init /\ [][Next]_vars

\* ------------------------------------------- setup_client and HTTP errors
\* setup_client(config, instance) is entered: a workflow was invoked
setup_client ==
    /\ mode = "idle"
    /\ client.state \in {"idle", "run", "LoginFailed", "HTTPError", "ConnectionError"}
    /\ runs < MaxRuns
    /\ client' = [client EXCEPT !.state = "auth", !.attempt = 0,
                                !.probe = "none", !.failed = FALSE]
    /\ UNCHANGED <<lfile, remote, disk, meta, mode, pc, comparison, idx,
                   events, confirm, fetched, edits, runs, last, closed,
                   skipped, cache, synced, merge>>

\* mutant: the keyring is left as it is after a 401
setup_client_attempt_keeps_keyring ==
    /\ client.state = "auth" /\ client.attempt < Attempts
    /\ \E probe \in Probes :
          client' = [client EXCEPT
              !.attempt = @ + 1,
              !.probe = probe,
              !.keyring = "stored",
              !.failed = @ \/ probe = "http",
              !.state = IF probe = "ok" THEN "ok"
                        ELSE IF probe = "conn" THEN "ConnectionError"
                        ELSE IF client.attempt + 1 = Attempts THEN "LoginFailed"
                        ELSE "auth"]
    /\ UNCHANGED <<lfile, remote, disk, meta, mode, pc, comparison, idx,
                   events, confirm, fetched, edits, runs, last, closed,
                   skipped, cache, synced, merge>>

\* One pass of the loop of setup_client: prompt_for_auth_details fills the
\* keyring, the probe is sent; a 401 clears the keyring, any other
\* HTTPError is caught and dropped, and after the last pass LoginFailed is
\* raised.  An exception that is not an HTTPError leaves setup_client.
setup_client_attempt ==
    /\ client.state = "auth" /\ client.attempt < Attempts
    /\ \E probe \in Probes :
          client' = [client EXCEPT
              !.attempt = @ + 1,
              !.probe = probe,
              !.keyring = IF probe = "401" THEN "empty" ELSE "stored",
              !.failed = @ \/ probe = "http",
              !.state = IF probe = "ok" THEN "ok"
                        ELSE IF probe = "conn" THEN "ConnectionError"
                        ELSE IF client.attempt + 1 = Attempts THEN "LoginFailed"
                        ELSE "auth"]
    /\ UNCHANGED <<lfile, remote, disk, meta, mode, pc, comparison, idx,
                   events, confirm, fetched, edits, runs, last, closed,
                   skipped, cache, synced, merge>>

\* client.get raises HTTPError inside update_meta: the first fetch of a
\* workflow, the re-fetch after client.update, or the handler's fetch.
\* Nothing catches it: the process (in watch, the observer's thread) ends.
update_meta_fails ==
    /\ client.state \in {"ok", "run"}
    /\ \/ /\ mode = "idle" /\ client.state = "ok"
          /\ UNCHANGED <<mode, pc, meta, comparison, idx, events>>
       \/ /\ mode \in {"push", "watch"} /\ pc = "refetch"
          /\ Crashed(mode)
          /\ events' = IF mode = "watch" THEN events ELSE {}
       \/ /\ mode = "watch" /\ pc = "wait"
          /\ \E p \in events \cap Fields : events' = events \ {p}
          /\ Crashed("watch")
    /\ client' = Failed
    /\ last' = NoLast
    /\ closed' = [f \in Fields |-> Open]
    /\ UNCHANGED <<lfile, remote, disk, confirm, fetched, edits, runs,
                   skipped, cache, synced, merge>>

InitAuth ==
    /\ InitWith(TRUE)
    /\ client \in {[NoClient EXCEPT !.state = "idle", !.keyring = k] :
                      k \in {"stored", "empty"}}
    /\ cache = NoCache
    /\ merge = NoMerge

NextAuth ==
    \/ Next
    \/ setup_client
    \/ setup_client_attempt
    \/ update_meta_fails

\* The workflows with authentication and with remote calls that can fail.
SpecAuth == InitAuth /\ [][NextAuth]_vars

\* do_watch alone, with the observer's thread running: an event in the
\* queue is dispatched and a handler that was called runs to its end.
NextWatch ==
    \/ LocalEdit
    \/ RemoteEdit
    \/ do_watch
    \/ dispatch_directory
    \/ on_modified
    \/ on_modified_field
    \/ on_modified_refetch
    \/ on_modified_save
    \/ StopWatch

SpecWatch ==
    /\ Init /\ [][NextWatch]_vars
    /\ WF_vars(dispatch_directory)
    /\ WF_vars(on_modified)
    /\ WF_vars(on_modified_field)
    /\ WF_vars(on_modified_refetch)
    /\ WF_vars(on_modified_save)

\* The same workflows with resolve_conflict run non-interactively.
InitNI ==
    InitWith(FALSE) /\ client = NoClient /\ cache = NoCache /\ merge = NoMerge
SpecNI == InitNI /\ [][Next]_vars

\* ----------------------------------------------------- SNCache (cache.py)
\* The variables of the workflows, which the cache and merge steps leave.
sync_vars == <<lfile, remote, disk, meta, mode, pc, comparison, idx, events,
               confirm, fetched, edits, runs, last, closed, skipped, synced,
               client>>

MaxScans == 2
MaxCaches == 2
MaxUpdates == 1

\* One record type whose key has two parts and whose fields are the two
\* of Fields: config.records = {widget: {key: 'scope/name', fields: ...}}
KeyParts == <<"scope", "name">>
FieldExt == [script |-> ".js", html |-> ".html"]
Extensions == {FieldExt[f] : f \in Fields}
Instances == {"dev", "prod"}

\* A file below the record type's directory: the directories of its
\* relative path, and its name split at the last dot.
File(dirs, stem, ext) == [dirs |-> dirs, stem |-> stem, ext |-> ext]
TreeFiles ==
    {File(<<"x">>, "a", ".js"), File(<<"x">>, "a", ".html"),
     File(<<"x">>, "b", ".js"), File(<<>>, "c", ".js"),
     File(<<"x">>, "a", ".txt")}
\* key, ext = os.path.splitext(str(rel)); the key as key.split(os.sep)
splitext(file) == [key |-> file.dirs \o <<file.stem>>, ext |-> file.ext]
RecordKeys == {<<"x", "a">>, <<"x", "b">>}

\* Paths are sequences of <<name, suffix>> segments.
Seg(name) == <<name, "">>
\* SNCache.path below the root, then the record type
cache_path == <<Seg(".sncache"), Seg("widget")>>
\* SNRecord.file: the path save() writes
record_file(key) ==
    cache_path \o [i \in 1 .. Len(key) - 1 |-> Seg(key[i])]
               \o <<<<key[Len(key)], ".json">>>>
\* mutant: the folders of the key are left out
meta_file_flat(key) ==
    cache_path \o <<<<key[Len(key)], ".json">>>>
\* meta_file of load_record: the path it opens
meta_file(key) ==
    cache_path \o [i \in 1 .. Len(key) - 1 |-> Seg(key[i])]
               \o <<<<key[Len(key)], ".json">>>>
DocPaths == {record_file(k) : k \in RecordKeys}

\* json.dump / json.load of a meta dict: None is written null, a str a
\* JSON string, a dict an object with the same keys.
json_value(v) == IF v = None THEN [type |-> "null"]
                 ELSE [type |-> "string", chars |-> v]
python_value(j) == IF j.type = "null" THEN None ELSE j.chars
json_dump(m) ==
    [kind |-> "json",
     body |-> [i \in DOMAIN m |->
                 [f \in DOMAIN m[i] |->
                    [k \in DOMAIN m[i][f] |-> json_value(m[i][f][k])]]]]
json_load(doc) ==
    [i \in DOMAIN doc.body |->
       [f \in DOMAIN doc.body[i] |->
          [k \in DOMAIN doc.body[i][f] |-> python_value(doc.body[i][f][k])]]]

\* What can be at a document's path: nothing, a file that cannot be
\* opened for reading, a file whose text is not JSON, or a dumped meta.
Absent == [kind |-> "absent"]
Unreadable == [kind |-> "unreadable"]
Malformed == [kind |-> "malformed"]
OneInstance == [i \in {"dev"} |-> SyncedOnce(Text(1))]
InitialDocs == {Absent, Unreadable, Malformed, json_dump(OneInstance)}
ReadDoc(docs, path) == IF path \in DOMAIN docs THEN docs[path] ELSE Absent

\* The meta argument None of SNRecord (its default), as load_record passes
\* it when the document is not found.
PyNone == [none |-> TRUE]
IsNone(m) == DOMAIN m = {"none"}

\* SNRecord(cache, record_type, name, meta): self.meta = meta or {} and
\* self._new = (meta is not None)
SNRecord(id, m) ==
    [id |-> id, meta |-> IF IsNone(m) THEN <<>> ELSE m, new |-> ~IsNone(m),
     lfiles |-> {}, loaded |-> TRUE]

\* SNRecord.is_new()
is_new(record) == record.new

NoStep == [op |-> "none", load |-> [called |-> FALSE]]
Register(c, key, m, doc) ==
    [c |-> [c EXCEPT
               !.records = [k \in DOMAIN c.records \cup {key} |->
                              IF k = key THEN SNRecord(c.made + 1, m)
                              ELSE c.records[k]],
               !.made = c.made + 1,
               !.born = [c.born EXCEPT ![key] = @ \cup {c.made + 1}]],
     out |-> "returned", id |-> c.made + 1,
     meta |-> SNRecord(c.made + 1, m).meta,
     in_memory |-> FALSE, doc |-> doc]

\* mutant: the in-memory map is not looked at
load_record_always_new(c, key) ==
    LET doc == ReadDoc(c.docs, meta_file(key))
    IN  IF doc.kind = "absent" THEN Register(c, key, PyNone, doc)
        ELSE IF doc.kind \in {"unreadable", "malformed"}
        THEN [c |-> c, out |-> "raised", id |-> 0, meta |-> <<>>,
              in_memory |-> FALSE, doc |-> doc]
        ELSE Register(c, key, json_load(doc), doc)

\* SNCache.load_record(record_type, key): the record in memory, or a new
\* one from the document; only FileNotFoundError is caught, so a file that
\* cannot be opened (PermissionError) or parsed (JSONDecodeError) raises.
load_record(c, key) ==
    IF key \in DOMAIN c.records
    THEN [c |-> c, out |-> "returned", id |-> c.records[key].id,
          meta |-> c.records[key].meta, in_memory |-> TRUE,
          doc |-> ReadDoc(c.docs, meta_file(key))]
    ELSE LET doc == ReadDoc(c.docs, meta_file(key))
         IN  IF doc.kind = "absent" THEN Register(c, key, PyNone, doc)
             ELSE IF doc.kind \in {"unreadable", "malformed"}
             THEN [c |-> c, out |-> "raised", id |-> 0, meta |-> <<>>,
                   in_memory |-> FALSE, doc |-> doc]
             ELSE Register(c, key, json_load(doc), doc)

\* SNRecord.add_lfile(file, file_ext): the field of the extension is bound
add_lfile(c, key, ext) ==
    [c EXCEPT !.records[key].lfiles =
                  @ \cup {f \in Fields : FieldExt[f] = ext}]

\* observation of one call of load_record: what it met and what it gave
NoLoad == [called |-> FALSE]
Loaded(c, key, got) ==
    [called |-> TRUE, key |-> key, out |-> got.out, id |-> got.id,
     meta |-> got.meta, in_memory |-> got.in_memory, doc |-> got.doc,
     registered |-> key \in DOMAIN got.c.records,
     held |-> IF key \in DOMAIN c.records THEN c.records[key].id ELSE 0]

\* mutant: the extension is not checked
scan_file_any_extension(c, file) ==
    LET sp == splitext(file)
    IN  IF Len(sp.key) # Len(KeyParts)
        THEN [c |-> c, out |-> "skipped", load |-> NoLoad]
        ELSE LET got == load_record(c, sp.key)
             IN  IF got.out = "raised"
                 THEN [c |-> c, out |-> "raised", load |-> Loaded(c, sp.key, got)]
                 ELSE [c |-> add_lfile(got.c, sp.key, sp.ext), out |-> "bound",
                       load |-> Loaded(c, sp.key, got)]

\* SNCache.scan_file(path, rconfig, record_type, file)
scan_file(c, file) ==
    LET sp == splitext(file)
    IN  IF Len(sp.key) # Len(KeyParts)
        THEN [c |-> c, out |-> "skipped", load |-> NoLoad]
        ELSE IF sp.ext \in Extensions
        THEN LET got == load_record(c, sp.key)
             IN  IF got.out = "raised"
                 THEN [c |-> c, out |-> "raised", load |-> Loaded(c, sp.key, got)]
                 ELSE [c |-> add_lfile(got.c, sp.key, sp.ext), out |-> "bound",
                       load |-> Loaded(c, sp.key, got)]
        ELSE [c |-> c, out |-> "skipped", load |-> NoLoad]

Size(c) == Cardinality(DOMAIN c.records)

\* SNCache(config): no records yet.  The tree and the documents are what
\* the process finds.
NewCache(tree, docs, caches, saved) ==
    [pc |-> "idle", tree |-> tree, todo |-> {}, docs |-> docs,
     records |-> <<>>, made |-> 0, scans |-> 0, caches |-> caches,
     updates |-> 0, base |-> 0,
     born |-> [k \in RecordKeys |-> {}],
     saved |-> saved, step |-> NoStep]

Never == [kind |-> "never"]

InitCache ==
    /\ InitWith(TRUE) /\ client = NoClient
    /\ lfile = [f \in Fields |-> Text(1)]
    /\ disk = NoMeta
    /\ \E tree \in {t \in SUBSET TreeFiles : Cardinality(t) >= 4},
          docs \in [DocPaths -> InitialDocs] :
          cache = NewCache(tree, docs, 1, [k \in RecordKeys |-> Never])
    /\ merge = NoMerge

\* SNCache.scan(): the record type is registered, the files are listed
scan ==
    /\ cache.pc \in {"idle", "done"}
    /\ cache.scans < MaxScans
    /\ cache' = [cache EXCEPT !.pc = "scan", !.todo = cache.tree,
                              !.base = Size(cache), !.step = NoStep]
    /\ UNCHANGED <<sync_vars, merge>>

\* one file of path.rglob('*') goes through scan_file
scan_step ==
    /\ cache.pc = "scan"
    /\ \E file \in cache.todo :
          LET got == scan_file(cache, file)
          IN  cache' = [got.c EXCEPT
                  !.pc = IF got.out = "raised" THEN "dead" ELSE "scan",
                  !.todo = cache.todo \ {file},
                  !.step = [op |-> "scan_file", file |-> file,
                            out |-> got.out,
                            load |-> got.load,
                            before |-> cache.records,
                            after |-> got.c.records,
                            made |-> got.c.made - cache.made]]
    /\ UNCHANGED <<sync_vars, merge>>

\* the loop over the files is over
scan_end ==
    /\ cache.pc = "scan" /\ cache.todo = {}
    /\ cache' = [cache EXCEPT !.pc = "done", !.scans = @ + 1, !.step = NoStep]
    /\ UNCHANGED <<sync_vars, merge>>

\* cache.load_record(record_type, key) called for a key
lookup ==
    /\ cache.pc = "done"
    /\ \E key \in RecordKeys :
          LET got == load_record(cache, key)
          IN  cache' = [got.c EXCEPT
                  !.pc = IF got.out = "raised" THEN "dead" ELSE "done",
                  !.step = [op |-> "load_record",
                            load |-> Loaded(cache, key, got)]]
    /\ UNCHANGED <<sync_vars, merge>>

\* record.update(instance, meta) for a record of the cache
record_update ==
    /\ cache.pc = "done"
    /\ cache.updates < MaxUpdates
    /\ \E key \in DOMAIN cache.records, i \in Instances, c \in {1, 2} :
          LET m == cache.records[key].meta
              old == IF i \in DOMAIN m THEN m[i] ELSE NoMeta
              new == update(old, [f \in Fields |-> Text(c)])
          IN  cache' = [cache EXCEPT
                  !.records[key].meta =
                      [j \in DOMAIN m \cup {i} |-> IF j = i THEN new ELSE m[j]],
                  !.records[key].loaded = FALSE,
                  !.updates = @ + 1,
                  !.step = NoStep]
    /\ UNCHANGED <<sync_vars, merge>>

\* SNRecord.save(): json.dump(self.meta) to self.file
record_save ==
    /\ cache.pc = "done"
    /\ \E key \in DOMAIN cache.records :
          /\ ~cache.records[key].loaded
          /\ cache' = [cache EXCEPT
                 !.docs = [q \in DOMAIN cache.docs \cup {record_file(key)} |->
                             IF q = record_file(key)
                             THEN json_dump(cache.records[key].meta)
                             ELSE cache.docs[q]],
                 !.saved[key] = cache.records[key].meta,
                 !.step = NoStep]
    /\ UNCHANGED <<sync_vars, merge>>

\* The process ends and the next one builds its SNCache on the same tree
\* and documents.
new_cache ==
    /\ cache.pc \in {"done", "dead"}
    /\ cache.caches < MaxCaches
    /\ cache' = NewCache(cache.tree, cache.docs, cache.caches + 1, cache.saved)
    /\ UNCHANGED <<sync_vars, merge>>

NextCache ==
    \/ scan
    \/ scan_step
    \/ scan_end
    \/ lookup
    \/ record_update
    \/ record_save
    \/ new_cache

SpecCache == InitCache /\ [][NextCache]_vars

\* ------------------------------------------------------ merge3 (merge.py)
MaxLines == 3
\* Lines of the base text and the lines an edit brings in; no two of them
\* are alike enough for Differ to pair them (ratio below 0.75).
BaseLines == {"a", "b", "c"}
NewLines == {"X", "Y"}

\* SequenceMatcher: the length of the common run that starts at a[i], b[j]
\* (indices from 1, ahi and bhi exclusive)
RECURSIVE MatchLen(_, _, _, _, _, _)
MatchLen(a, b, i, j, ahi, bhi) ==
    IF i < ahi /\ j < bhi /\ a[i] = b[j]
    THEN 1 + MatchLen(a, b, i + 1, j + 1, ahi, bhi)
    ELSE 0

\* SequenceMatcher.find_longest_match: the longest block, of those the one
\* that starts earliest in a, of those the one that starts earliest in b;
\* <<0, 0, 0>> when the ranges share no line.
find_longest_match(a, b, alo, ahi, blo, bhi) ==
    LET cands == {c \in (alo .. ahi - 1) \X (blo .. bhi - 1) : a[c[1]] = b[c[2]]}
        k(c) == MatchLen(a, b, c[1], c[2], ahi, bhi)
        best == CHOOSE c \in cands :
                    \A d \in cands :
                        \/ k(c) > k(d)
                        \/ k(c) = k(d) /\ c[1] < d[1]
                        \/ k(c) = k(d) /\ c[1] = d[1] /\ c[2] <= d[2]
    IN  IF cands = {} THEN <<0, 0, 0>> ELSE <<best[1], best[2], k(best)>>

\* SequenceMatcher.get_matching_blocks, without the closing dummy block
RECURSIVE get_matching_blocks(_, _, _, _, _, _)
get_matching_blocks(a, b, alo, ahi, blo, bhi) ==
    LET m == find_longest_match(a, b, alo, ahi, blo, bhi)
    IN  IF m[3] = 0 THEN <<>>
        ELSE get_matching_blocks(a, b, alo, m[1], blo, m[2])
             \o <<m>>
             \o get_matching_blocks(a, b, m[1] + m[3], ahi, m[2] + m[3], bhi)

\* Differ._dump: the lines x[lo .. hi-1], each with the tag in front
Dump(tag, x, lo, hi) == [n \in 1 .. hi - lo |-> <<tag, x[lo + n - 1]>>]

\* The lines Differ gives for what lies between two matching blocks:
\* delete, insert, or replace (Differ._plain_replace: the shorter side
\* of the two comes second only if it is b's).
Between(a, b, i, ai, j, bj) ==
    IF i < ai /\ j < bj
    THEN IF bj - j < ai - i
         THEN Dump("+", b, j, bj) \o Dump("-", a, i, ai)
         ELSE Dump("-", a, i, ai) \o Dump("+", b, j, bj)
    ELSE Dump("-", a, i, ai) \o Dump("+", b, j, bj)

RECURSIVE Opcodes(_, _, _, _, _, _)
Opcodes(a, b, blocks, n, i, j) ==
    IF n > Len(blocks)
    THEN Between(a, b, i, Len(a) + 1, j, Len(b) + 1)
    ELSE LET m == blocks[n]
         IN  Between(a, b, i, m[1], j, m[2])
             \o Dump(" ", a, m[1], m[1] + m[3])
             \o Opcodes(a, b, blocks, n + 1, m[1] + m[3], m[2] + m[3])

\* difflib.Differ().compare(a, b)
Differ_compare(a, b) ==
    Opcodes(a, b, get_matching_blocks(a, b, 1, Len(a) + 1, 1, Len(b) + 1), 1, 1, 1)

\* drop_absent_lines(diff)
drop_absent_lines(diff) == SelectSeq(diff, LAMBDA line : line[1] # "?")

Texts(diff, from) == [n \in 1 .. Len(diff) - from + 1 |-> diff[from + n - 1][2]]

\* The while loop of merge3.  Where no rule applies the code prints
\* CONFLICT and breaks: the block that writes the markers and assigns
\* had_conflict comes after the break and is never run, so had_conflict
\* (has_conflict is the name initialised to False) stays unbound.
RECURSIVE merge3_loop(_, _, _, _, _)
merge3_loop(other_diff, this_diff, index_other, index_this, result) ==
    IF ~(index_other <= Len(other_diff) /\ index_this <= Len(this_diff))
    THEN [result |-> result, index_other |-> index_other,
          index_this |-> index_this, had_conflict |-> "unbound"]
    ELSE LET o == other_diff[index_other]
             t == this_diff[index_this]
         IN  IF o = t /\ o[1] \in {" ", "+"}
             THEN merge3_loop(other_diff, this_diff, index_other + 1,
                              index_this + 1, Append(result, o[2]))
             ELSE IF o = t /\ o[1] = "-"
             THEN merge3_loop(other_diff, this_diff, index_other + 1,
                              index_this + 1, result)
             ELSE IF o[1] = "+" /\ t[1] = " "
             THEN merge3_loop(other_diff, this_diff, index_other + 1,
                              index_this, Append(result, o[2]))
             ELSE IF t[1] = "+" /\ o[1] = " "
             THEN merge3_loop(other_diff, this_diff, index_other,
                              index_this + 1, Append(result, t[2]))
             ELSE [result |-> result, index_other |-> index_other,
                   index_this |-> index_this, had_conflict |-> "unbound"]

\* merge3(base, other, this): the two diffs against base, the loop, the
\* lines left over in either diff, and the return, which raises
\* UnboundLocalError when had_conflict was never assigned.
merge3(base, other, this) ==
    LET other_diff == drop_absent_lines(Differ_compare(base, other))
        this_diff == drop_absent_lines(Differ_compare(base, this))
        w == merge3_loop(other_diff, this_diff, 1, 1, <<>>)
        result == w.result \o Texts(other_diff, w.index_other)
                           \o Texts(this_diff, w.index_this)
    IN  IF w.had_conflict = "unbound"
        THEN [raised |-> "UnboundLocalError", had_conflict |-> "unbound",
              result |-> result]
        ELSE [raised |-> "no", had_conflict |-> w.had_conflict,
              result |-> result]

\* The texts merge3 is called with: a base of up to MaxLines lines, and on
\* either side the base, or the base with one line replaced, removed or
\* put in.
Bases == UNION {[1 .. n -> BaseLines] : n \in 1 .. MaxLines}
Replaced(base, x) == {[base EXCEPT ![i] = x] : i \in 1 .. Len(base)}
Removed(base) ==
    {SubSeq(base, 1, i - 1) \o SubSeq(base, i + 1, Len(base)) : i \in 1 .. Len(base)}
PutIn(base, x) ==
    {SubSeq(base, 1, i) \o <<x>> \o SubSeq(base, i + 1, Len(base)) : i \in 0 .. Len(base)}
Edits(base, x) == {base} \cup Replaced(base, x) \cup Removed(base) \cup PutIn(base, x)

InitMerge ==
    /\ InitWith(TRUE) /\ client = NoClient /\ cache = NoCache
    /\ lfile = [f \in Fields |-> Text(1)]
    /\ disk = NoMeta
    /\ \E base \in Bases :
          \E other \in Edits(base, "X"),
             this \in Edits(base, "Y") \cup Replaced(base, "X") :
             merge = [pc |-> "args", base |-> base, other |-> other, this |-> this]

\* had_conflict, result = merge3(base, other, this)
merge3_call ==
    /\ merge.pc = "args"
    /\ merge' = [merge EXCEPT !.pc = "done"] @@
                 [ret |-> merge3(merge.base, merge.other, merge.this)]
    /\ UNCHANGED <<sync_vars, cache>>

NextMerge == merge3_call

SpecMerge == InitMerge /\ [][NextMerge]_vars

\* -------------------------------------------- SNRecord.get_files alone
MaxFiles == 2
\* The lists of paths a caller can pass: up to MaxFiles paths
FileLists ==
    UNION {[1 .. n -> Fields \cup {"other"}] : n \in 0 .. MaxFiles}

\* A record that scan has bound one or two files to, and the files
\* argument of the call.
InitFiles ==
    /\ InitWith(TRUE) /\ client = NoClient /\ merge = NoMerge
    /\ lfile = [f \in Fields |-> Text(1)]
    /\ disk = NoMeta
    /\ \E bound \in Orders, files \in {NoFiles} \cup {Listed(l) : l \in FileLists} :
          cache = [pc |-> "get_files", bound |-> bound, files |-> files,
                   ret |-> [raised |-> "no", files |-> <<>>]]

\* for name, file in record.get_files(files=files)
get_files_call ==
    /\ cache.pc = "get_files"
    /\ cache' = [cache EXCEPT !.pc = "returned",
                              !.ret = get_files(cache.bound, cache.files)]
    /\ UNCHANGED <<sync_vars, merge>>

NextFiles == get_files_call

SpecFiles == InitFiles /\ [][NextFiles]_vars

\* ============================================================== claims
Entries == {comparison[i] : i \in 1 .. Len(comparison)}

\* C1: for every field compare checks, a local hash equal to the stored
\* remote hash is classified NOCHANGE, whatever prev_hash is.
C1_EqualIsNoChange ==
    \A e \in Entries : e.local_hash = e.remote_hash => e.status = ModNOCHANGE

\* a field with equal local and remote hash and a baseline that differs
\* from both has been compared
C1_Witness ==
    \E e \in Entries :
        /\ e.local_hash = e.remote_hash
        /\ e.prev_hash # None /\ e.prev_hash # e.remote_hash

\* C2: with a baseline recorded and local # remote, compare yields REMOTE
\* when local = baseline, LOCAL when remote = baseline, BOTH when the three
\* are pairwise distinct; and every field that can be checked gets one of
\* the four classifications.
C2_BaselineCases ==
    /\ \A e \in Entries :
          (e.prev_hash # None /\ e.local_hash # e.remote_hash) =>
              /\ e.local_hash = e.prev_hash => e.status = ModREMOTE
              /\ (e.remote_hash = e.prev_hash /\ e.local_hash # e.prev_hash)
                     => e.status = ModLOCAL
              /\ (e.local_hash # e.prev_hash /\ e.remote_hash # e.prev_hash)
                     => e.status = ModBOTH
    /\ meta # NoMeta =>
          \A f \in Fields :
              classify(MD5(lfile[f]), meta[f].hash, meta[f].prev_hash) \in ModStatus
    /\ \A i, j \in 1 .. Len(comparison) :
          /\ comparison[i].status \in ModStatus
          /\ comparison[i].name = comparison[j].name => i = j

\* one compare has met a LOCAL field and a BOTH field
C2_Witness ==
    /\ \E e \in Entries : e.status = ModBOTH /\ e.prev_hash # None
    /\ \E e \in Entries : e.status = ModLOCAL /\ e.prev_hash # None

\* C3: without a baseline hash and with local # remote, compare yields
\* REMOTE, also the first time the field is observed.
C3_NoBaselineIsRemote ==
    \A e \in Entries :
        (e.prev_hash = None /\ e.local_hash # e.remote_hash) => e.status = ModREMOTE

\* the first run of a record without a cache document compares a field
\* whose local file differs from the remote value
C3_Witness ==
    /\ disk = NoMeta
    /\ \E e \in Entries : e.prev_hash = None /\ e.local_hash # e.remote_hash

Stepped == last.op # "none"

\* C4: pull of a field that has no baseline, with local hash h1 and fetched
\* remote hash h2 # h1: resolve_conflict is not called, the local file gets
\* the fetched remote contents, and afterwards the baseline hash is h2.
C4_PullNoBaselineOverwrites ==
    (/\ Stepped /\ last.op = "pull"
     /\ last.seen.prev_hash = None
     /\ last.seen.local_hash # last.seen.remote_hash
     /\ last.seen.remote_hash = MD5(last.fetched))
    => /\ ~last.resolved
       /\ last.saved = last.fetched
       /\ last.post_file = last.fetched
       /\ last.post_field.prev_hash = MD5(last.fetched)
       /\ last.post_field.prev_contents = last.fetched

\* pull has just processed such a field, whose local file held another text
C4_Witness ==
    /\ Stepped /\ last.op = "pull"
    /\ last.seen.prev_hash = None
    /\ last.seen.local_hash # last.seen.remote_hash
    /\ last.pre_file # last.fetched
    /\ last.post_file = last.fetched

StatusNow(f) == classify(MD5(lfile[f]), meta[f].hash, meta[f].prev_hash)

\* C5 as stated: once update_field_meta has been called for a field, by
\* whatever route, compare yields NOCHANGE while the local file and the
\* stored remote hash are unchanged.
C5_ClosedIsNoChange ==
    \A f \in Fields :
        (closed[f] # Open /\ meta # NoMeta) => StatusNow(f) = ModNOCHANGE

\* C5 amended: after update_field_meta, with the local file and the stored
\* remote hash unchanged, compare never yields REMOTE or BOTH; it yields
\* NOCHANGE after pull's direct apply and overwrite and whenever the local
\* hash equals the stored remote hash, and LOCAL otherwise.
C5_ClosedIsNoChangeOrLocal ==
    \A f \in Fields :
        (closed[f] # Open /\ meta # NoMeta) =>
            /\ StatusNow(f) \in {ModNOCHANGE, ModLOCAL}
            /\ meta[f].prev_hash = meta[f].hash
            /\ closed[f] \in {<<"pull", "direct">>, <<"pull", "overwrite">>}
                  => StatusNow(f) = ModNOCHANGE
            /\ MD5(lfile[f]) # meta[f].hash => StatusNow(f) = ModLOCAL

\* one pull has applied a remote change to one field directly and has
\* merged the other; the merged field now compares LOCAL
C5_Witness ==
    /\ meta # NoMeta
    /\ \E f, g \in Fields :
          /\ closed[f] = <<"pull", "direct">> /\ StatusNow(f) = ModNOCHANGE
          /\ closed[g] = <<"pull", "merge">> /\ StatusNow(g) = ModLOCAL

\* C6: pull writes a REMOTE field's fetched remote contents to the local
\* file, push sends a LOCAL field's local contents to the remote store; in
\* neither case is resolve_conflict called.
C6_DirectApply ==
    /\ (Stepped /\ last.op = "pull" /\ last.status = ModREMOTE) =>
          /\ ~last.resolved
          /\ last.saved = last.fetched
          /\ last.post_file = last.fetched
          /\ last.sent = None
          /\ last.post_remote = last.pre_remote
    /\ (Stepped /\ last.op \in {"push", "watch"} /\ last.status = ModLOCAL) =>
          /\ ~last.resolved
          /\ last.sent = last.pre_file
          /\ last.post_remote = last.pre_file
          /\ last.post_file = last.pre_file

\* push has just sent a locally changed text that the remote did not hold
C6_Witness ==
    /\ Stepped /\ last.op = "push" /\ last.status = ModLOCAL
    /\ last.pre_remote # last.pre_file
    /\ last.post_remote = last.pre_file

\* C7: resolve_conflict is called exactly for LOCAL and BOTH in pull, with
\* prefer = remote, and for REMOTE and BOTH in push and watch, with
\* prefer = local; base is the baseline contents, local the file's present
\* contents, remote the fetched remote contents.
C7_ResolveExactly ==
    Stepped =>
        /\ last.resolved <=>
              \/ last.op = "pull" /\ last.status \in {ModLOCAL, ModBOTH}
              \/ last.op \in {"push", "watch"} /\ last.status \in {ModREMOTE, ModBOTH}
        /\ last.resolved =>
              /\ last.args.prefer = IF last.op = "pull" THEN "remote" ELSE "local"
              /\ last.args.base = last.pre_field.prev_contents
              /\ last.args.local = last.pre_file
              /\ last.args.remote = last.fetched

\* the watch handler has called resolve_conflict for a BOTH field
C7_Witness ==
    /\ Stepped /\ last.op = "watch" /\ last.resolved /\ last.status = ModBOTH
    /\ last.args.base # None
    /\ last.args.local # last.args.remote

\* C8: a skip leaves the local file, the remote record and the baseline
\* as they were, the run goes on, and the next compare of the field, with
\* no edit of either side in between, gives the status it was skipped with.
C8_SkipLeavesAll ==
    /\ (Stepped /\ last.resolved /\ last.answer = "s") =>
          /\ last.result = None
          /\ last.saved = None /\ last.sent = None /\ ~last.ufm
          /\ last.post_file = last.pre_file
          /\ last.post_remote = last.pre_remote
          /\ last.post_field = last.pre_field
          /\ last.went_on
          /\ pc = "loop" /\ idx <= Len(comparison) + 1
    /\ \A e \in Entries :
          skipped[e.name] # "no" => e.status = skipped[e.name]

\* a later run has compared, and not yet processed, a field that was
\* skipped as BOTH
C8_Witness ==
    /\ pc = "loop" /\ last = NoLast /\ idx = 1
    /\ \E e \in Entries : skipped[e.name] = ModBOTH /\ e.status = ModBOTH

\* C9: run with confirm = False, resolve_conflict returns None whatever
\* base, local, remote and prefer are, and the caller changes neither the
\* local file, nor the remote record, nor the field's baseline.
C9_NonInteractiveSkips ==
    (Stepped /\ last.resolved /\ ~last.confirm) =>
        /\ last.result = None
        /\ last.saved = None /\ last.sent = None /\ ~last.ufm
        /\ last.post_file = last.pre_file
        /\ last.post_remote = last.pre_remote
        /\ last.post_field = last.pre_field

\* resolve_conflict has been called without confirm for a field whose
\* three texts are pairwise different
C9_Witness ==
    /\ Stepped /\ last.resolved /\ ~last.confirm
    /\ last.args.base # None
    /\ last.args.base # last.args.local
    /\ last.args.base # last.args.remote
    /\ last.args.local # last.args.remote

\* C10: with overwrite the resolved content is the preferred side, the
\* remote contents in pull and the local contents in push and watch; it is
\* what is written, and the other side's text is gone.
C10_OverwritePrefers ==
    (Stepped /\ last.resolved /\ last.answer = "o") =>
        /\ last.op = "pull" =>
              /\ last.result = last.fetched
              /\ last.saved = last.fetched
              /\ last.post_file = last.fetched
              /\ last.sent = None
        /\ last.op \in {"push", "watch"} =>
              /\ last.result = last.pre_file
              /\ last.sent = last.pre_file
              /\ last.post_remote = last.pre_file
              /\ last.post_file = last.pre_file

\* push has overwritten a remote text with a different local one
C10_Witness ==
    /\ Stepped /\ last.resolved /\ last.answer = "o" /\ last.op = "push"
    /\ last.pre_remote # last.pre_file
    /\ last.post_remote = last.pre_file

\* What the workflow itself does: every step but an edit by the operator
\* or by somebody in the instance.
OwnStep == edits' = edits
Views == {"status", "diff"}

\* C11: no step of get_status or do_diff writes a local file, sends an
\* update to the remote record or saves the record's cache document.
C11_ViewsWriteNothing ==
    [][((mode \in Views \/ mode' \in Views) /\ OwnStep)
          => (lfile' = lfile /\ remote' = remote /\ disk' = disk)]_vars

\* get_status has fetched a remote change, holds meta that differs from
\* the cache document, and has classified a field as changed
C11_Witness ==
    /\ mode = "status" /\ pc = "render"
    /\ meta # disk
    /\ \E e \in Entries : e.status = ModBOTH

\* an event leaves the observer's queue: a handler invocation starts
Taken == \E p \in events \cap Fields : events' = events \ {p}

PushOf(o) ==
    LET resolved == o.status # ModNOCHANGE /\ push_resolves(o.status)
        args == push_args(o.pre_field, o.pre_file)
        result == IF resolved
                  THEN resolve_conflict(args.base, args.local, args.remote,
                           o.confirm, args.prefer,
                           o.input.answer, o.input.merged, o.input.edited)
                  ELSE None
        contents == IF resolved THEN result
                    ELSE IF o.status = ModLOCAL
                         THEN push_direct(o.pre_field, o.pre_file)
                    ELSE None
        writes == /\ o.status # ModNOCHANGE
                  /\ ~(resolved /\ result = None)
                  /\ result # Raise
    IN  [resolved |-> resolved, args |-> args, result |-> result,
         saved |-> IF writes THEN contents ELSE None,
         sent |-> IF writes THEN contents ELSE None,
         post_file |-> IF writes THEN contents ELSE o.pre_file,
         post_remote |-> IF writes THEN contents ELSE o.pre_remote,
         went_on |-> result # Raise]

\* C13: what the handler does for the event of file p is what do_push does
\* for files = [p] on the same record: the same fetch and compare of p's
\* field alone, the same call of resolve_conflict, the same texts written
\* and sent, the same baseline and the same save; no other field's file or
\* remote value is touched, and the event of a directory changes nothing.
C13_EventIsPushOfOneFile ==
    /\ []((Stepped /\ last.op = "watch") =>
             /\ last.resolved = PushOf(last).resolved
             /\ last.resolved => last.args = PushOf(last).args
             /\ last.result = PushOf(last).result
             /\ last.saved = PushOf(last).saved
             /\ last.sent = PushOf(last).sent
             /\ last.post_file = PushOf(last).post_file
             /\ last.post_remote = PushOf(last).post_remote
             /\ last.went_on = PushOf(last).went_on
             /\ last.ufm => /\ last.post_field.prev_hash = last.post_field.hash
                            /\ last.post_field.prev_contents
                                  = last.post_field.contents)
    /\ [][(mode = "watch" /\ mode' = "watch" /\ Taken) =>
             /\ meta' = update(meta, remote)
             /\ \E p \in events \ events' :
                   comparison' = compare(meta', lfile, <<p>>)
             /\ Len(comparison') <= 1]_vars
    /\ [][(mode = "watch" /\ OwnStep) =>
             \A g \in Fields :
                 (lfile'[g] # lfile[g] \/ remote'[g] # remote[g]) =>
                     /\ pc = "loop" /\ idx <= Len(comparison)
                     /\ comparison[idx].name = g]_vars
    /\ [][(mode = "watch" /\ mode' = "watch" /\ pc = "loop" /\ pc' = "wait")
             => (disk' = meta /\ meta' = meta)]_vars
    /\ [][(mode = "watch" /\ mode' = "watch" /\ Dir \in events /\ Dir \notin events')
             => UNCHANGED <<lfile, remote, disk, meta, pc, comparison, fetched>>]_vars

\* the handler has overwritten the remote value of a field that had
\* changed on both sides, while the event of a directory is queued
C13_Witness ==
    /\ Stepped /\ last.op = "watch" /\ last.status = ModBOTH
    /\ last.resolved /\ last.answer = "o"
    /\ last.post_remote = last.pre_file /\ last.pre_remote # last.pre_file
    /\ Dir \in events

\* C14: setup_client probes at most 3 times; a probe answered 401 leaves
\* the keyring cleared; LoginFailed is raised after 3 probes none of which
\* was answered, and then no record has been fetched, compared, written or
\* saved: no step of setup_client touches a record, a file or a document.
C14_ThreeAttemptsThenLoginFailed ==
    /\ [](/\ client.attempt <= 3
          /\ client.probe = "401" => client.keyring = "empty"
          /\ client.state = "LoginFailed" =>
                /\ client.attempt = 3 /\ client.probe \in {"401", "http"}
                /\ mode = "idle" /\ meta = NoMeta /\ comparison = <<>>
          /\ (client.attempt = 3 /\ client.probe \in {"401", "http"}) =>
                client.state = "LoginFailed"
          /\ client.state = "ok" => client.probe = "ok")
    /\ [][(client.state = "auth" /\ OwnStep) =>
              UNCHANGED <<lfile, remote, disk, meta, mode, pc, comparison,
                          fetched, runs>>]_vars

\* three probes were answered 401 and LoginFailed was raised, with local
\* and remote texts that a run would have had to reconcile
C14_Witness ==
    /\ client.state = "LoginFailed" /\ client.attempt = 3
    /\ client.keyring = "empty" /\ ~client.failed
    /\ \E f \in Fields : lfile[f] # remote[f]

\* C15: once a call of the run, the probe included, has raised an HTTPError
\* with a status other than 401, the run is over: no further probe or
\* call is made, and no file, remote record, record meta or cache document
\* is changed by the run afterwards.
C15_HTTPErrorAborts ==
    /\ [](client.failed => client.state \in {"HTTPError", "LoginFailed"})
    /\ [](client.failed => (mode = "idle" \/ pc = "dead"))
    /\ [][(client.failed /\ OwnStep /\ client'.failed) =>
              UNCHANGED <<lfile, remote, disk, meta, client>>]_vars

\* the call of load_record the last step made, from scan_file or directly
Load == cache.step.load
NewKey == cache.pc # "off" /\ Load.called /\ ~Load.in_memory

\* C16 as stated: load_record for a key that is not in memory and whose
\* document is absent, unreadable or malformed returns a record with empty
\* meta and registers it; it does not raise.
C16_LoadRecordNeverFails ==
    (NewKey /\ Load.doc.kind \in {"absent", "unreadable", "malformed"})
    => /\ Load.out = "returned"
       /\ Load.meta = <<>>
       /\ Load.registered

Mismatch(file) ==
    \/ Len(splitext(file).key) # 2
    \/ splitext(file).ext \notin {".js", ".html"}

\* C17: scan_file of a file whose key has not as many parts as the
\* configured key, or whose extension is not a configured one, creates and
\* binds no record and raises nothing, and the scan goes on.
C17_MismatchIsSkipped ==
    (/\ cache.pc # "off" /\ cache.step.op = "scan_file"
     /\ Mismatch(cache.step.file))
    => /\ cache.step.out = "skipped"
       /\ cache.step.after = cache.step.before
       /\ cache.step.made = 0
       /\ cache.pc = "scan"
       /\ cache.step.file \notin cache.todo

\* a file with an unknown extension, whose key has a record, was skipped
\* while files remain to be scanned
C17_Witness ==
    /\ cache.pc = "scan" /\ cache.step.op = "scan_file"
    /\ cache.step.file = File(<<"x">>, "a", ".txt")
    /\ <<"x", "a">> \in DOMAIN cache.step.before
    /\ cache.todo # {}

\* C18: in one cache no key ever gets a second SNRecord object; a scan
\* after the first adds no record to the map; and load_record for a key
\* in memory returns the object the map held.
C18_OneRecordPerKey ==
    cache.pc # "off" =>
        /\ \A k \in RecordKeys :
              /\ Cardinality(cache.born[k]) <= 1
              /\ k \in DOMAIN cache.records =>
                     cache.born[k] = {cache.records[k].id}
        /\ (cache.scans >= 1 /\ cache.pc = "scan") => Size(cache) = cache.base
        /\ (Load.called /\ Load.in_memory) =>
              /\ Load.id = Load.held
              /\ Load.out = "returned"

\* a second scan is under way on a map of two records, one of them bound
\* to two files
C18_Witness ==
    /\ cache.pc = "scan" /\ cache.scans = 1
    /\ cache.step.op = "scan_file" /\ cache.step.out = "bound"
    /\ Size(cache) = 2
    /\ \E k \in DOMAIN cache.records : Cardinality(cache.records[k].lfiles) = 2

\* C19: save writes to the path load_record reads, and a record that a
\* later cache loads has, until it is updated, the meta that was saved,
\* for every instance and field, prev_hash and prev_contents included.
C19_SaveLoadRoundTrip ==
    cache.pc # "off" =>
        /\ \A k \in RecordKeys : record_file(k) = meta_file(k)
        /\ \A k \in RecordKeys :
              cache.saved[k] # Never =>
                  /\ ReadDoc(cache.docs, record_file(k)) = json_dump(cache.saved[k])
                  /\ json_load(json_dump(cache.saved[k])) = cache.saved[k]
                  /\ (k \in DOMAIN cache.records /\ cache.records[k].loaded) =>
                        cache.records[k].meta = cache.saved[k]

\* a second cache has loaded a record whose saved meta holds two instances,
\* one of them with a baseline
C19_Witness ==
    /\ cache.pc # "off" /\ cache.caches = 2
    /\ \E k \in DOMAIN cache.records :
          /\ cache.records[k].loaded
          /\ cache.saved[k] # Never
          /\ cache.records[k].meta = cache.saved[k]
          /\ DOMAIN cache.saved[k] = Instances

\* other and this replace one and the same line of base, each by a line
\* of its own
SameLineChanged(base, other, this) ==
    \E i \in 1 .. Len(base) :
        \E x, y \in NewLines :
            /\ x # y
            /\ other = [base EXCEPT ![i] = x]
            /\ this = [base EXCEPT ![i] = y]

\* the lines of want occur in result in this order
RECURSIVE InOrder(_, _)
InOrder(result, want) ==
    IF want = <<>> THEN TRUE
    ELSE IF result = <<>> THEN FALSE
    ELSE IF Head(result) = Head(want) THEN InOrder(Tail(result), Tail(want))
    ELSE InOrder(Tail(result), want)

ChangedLine(base, side) ==
    side[CHOOSE i \in 1 .. Len(base) : side[i] # base[i]]

\* C20 as stated: when the two sides change the same base line differently
\* merge3 returns conflict = True and a result that holds the start
\* marker, other's line, the mid marker, this's line and the end marker in
\* this order.
C20_ConflictIsMarked ==
    (/\ merge.pc = "done"
     /\ SameLineChanged(merge.base, merge.other, merge.this))
    => /\ merge.ret.raised = "no"
       /\ merge.ret.had_conflict = "True"
       /\ InOrder(merge.ret.result,
                  <<"<<<<<<< OTHER", ChangedLine(merge.base, merge.other),
                    "=======", ChangedLine(merge.base, merge.this),
                    ">>>>>>> THIS">>)

\* merge3 was called with base a b c, other a X c and this a Y c
C20_Witness ==
    /\ merge.pc = "done"
    /\ merge.base = <<"a", "b", "c">>
    /\ merge.other = <<"a", "X", "c">>
    /\ merge.this = <<"a", "Y", "c">>
    /\ merge.ret.result = <<"a", "X", "c", "Y", "c">>

\* other replaces line i of base by x and this replaces another line j by y
DisjointChange(base, other, this, i, j, x, y) ==
    /\ i # j
    /\ other = [base EXCEPT ![i] = x]
    /\ this = [base EXCEPT ![j] = y]

\* C21 as stated: when the two sides change different lines of base,
\* merge3 returns conflict = False and the base with both changes made
\* (base a b c, other a X c, this a b Y gives a X Y).
C21_DisjointEditsMerge ==
    merge.pc = "done" =>
        \A i, j \in 1 .. Len(merge.base) :
            \A x, y \in NewLines :
                DisjointChange(merge.base, merge.other, merge.this, i, j, x, y)
                => /\ merge.ret.raised = "no"
                   /\ merge.ret.had_conflict = "False"
                   /\ merge.ret.result = [merge.base EXCEPT ![i] = x, ![j] = y]

\* merge3 was called with base a b c, other a X c and this a b Y
C21_Witness ==
    /\ merge.pc = "done"
    /\ merge.base = <<"a", "b", "c">>
    /\ merge.other = <<"a", "X", "c">>
    /\ merge.this = <<"a", "b", "Y">>
    /\ merge.ret.raised = "UnboundLocalError"

\* C22 as stated: merge3(X, X, X) returns (False, X) for every line
\* sequence X.
C22_MergeOfEqualsIsIdentity ==
    (/\ merge.pc = "done"
     /\ merge.other = merge.base
     /\ merge.this = merge.base)
    => /\ merge.ret.raised = "no"
       /\ merge.ret.had_conflict = "False"
       /\ merge.ret.result = merge.base

\* merge3 was called with three equal texts of MaxLines lines and had
\* built that text when it raised
C22_Witness ==
    /\ merge.pc = "done"
    /\ Len(merge.base) = MaxLines
    /\ merge.other = merge.base
    /\ merge.this = merge.base
    /\ merge.ret.result = merge.base
    /\ merge.ret.raised = "UnboundLocalError"

\* The local file of f was edited since the record was last saved with both
\* sides of f equal, and the remote field is what it was then.
OnlyLocalEdited(f) == synced[f] # None /\ lfile[f] # synced[f]

\* C23 as stated: a field that ended a run with local equal to remote and
\* whose local file alone was edited afterwards is classified LOCAL by the
\* next pull or push, and pull writes the remote contents over such a file
\* only through resolve_conflict.
C23_LocalEditIsLocal ==
    [][/\ (mode = "idle" /\ mode' \in {"pull", "push"})
          => \A i \in 1 .. Len(comparison') :
                OnlyLocalEdited(comparison'[i].name)
                => comparison'[i].status = ModLOCAL
       /\ (mode = "pull" /\ pc = "loop" /\ idx' = idx + 1)
          => LET f == comparison[idx].name
             IN  (OnlyLocalEdited(f) /\ lfile'[f] # lfile[f]) => last'.resolved
      ]_vars

\* pull has written the remote contents over a local edit of a field that
\* was in step before the edit, without calling resolve_conflict
C23_Witness ==
    /\ last.op = "pull"
    /\ ~last.resolved
    /\ last.status = ModREMOTE
    /\ synced[last.name] = last.pre_remote
    /\ last.pre_file # synced[last.name]
    /\ last.post_file = last.pre_remote

\* A step that is one call of update_meta and nothing after it on the
\* record: the start of pull, push, status, diff and watch (the document
\* read from disk is updated) and the start of on_modified.
UpdateStep ==
    \/ pc = "idle" /\ pc' # "idle"
    \/ mode = "watch" /\ pc = "wait" /\ pc' = "loop"

\* The field entry update() finds for f.
Before(f) ==
    LET m == IF pc = "idle" THEN disk ELSE meta
    IN  IF m = NoMeta THEN EmptyField ELSE m[f]

\* C24: update() leaves the fetched value as the stored hash and contents
\* of every field, and where no baseline was recorded and the fetched hash
\* differs from the stored one, the baseline becomes the hash and contents
\* stored before the call.
C24_UpdateSnapshotsPrevious ==
    [][UpdateStep =>
         \A f \in Fields :
            /\ meta'[f].hash = MD5(remote[f])
            /\ meta'[f].contents = remote[f]
            /\ (Before(f).prev_hash = None /\ Before(f).hash # MD5(remote[f]))
               => /\ meta'[f].prev_hash = Before(f).hash
                  /\ meta'[f].prev_contents = Before(f).contents
      ]_vars

\* a run has started on a saved record without baseline whose remote field
\* was rewritten since: the stored value has become the baseline
C24_Witness ==
    /\ mode \in {"pull", "push"} /\ pc = "loop" /\ idx = 1 /\ last = NoLast
    /\ disk # NoMeta
    /\ \E f \in Fields :
          /\ disk[f].prev_hash = None
          /\ disk[f].hash # MD5(fetched[f])
          /\ meta[f].prev_hash = disk[f].hash
          /\ meta[f].prev_contents = disk[f].contents
          /\ meta[f].hash = MD5(fetched[f])

\* C25: update() leaves a recorded baseline as it is, and a step that
\* changes the recorded baseline of a field is one that has called
\* update_field_meta for that field.
C25_BaselineKeptByUpdate ==
    [][/\ UpdateStep =>
            \A f \in Fields :
               Before(f).prev_hash # None
               => /\ meta'[f].prev_hash = Before(f).prev_hash
                  /\ meta'[f].prev_contents = Before(f).prev_contents
       /\ (meta # NoMeta /\ meta' # NoMeta) =>
            \A f \in Fields :
               (/\ meta[f].prev_hash # None
                /\ \/ meta'[f].prev_hash # meta[f].prev_hash
                   \/ meta'[f].prev_contents # meta[f].prev_contents)
               => /\ last'.op # "none"
                  /\ last'.ufm
                  /\ last'.name = f
      ]_vars

\* a run has started on a record saved with a baseline, the remote field
\* was rewritten since the record was saved, and the baseline is the one
\* that was saved
C25_Witness ==
    /\ mode \in {"pull", "push"} /\ pc = "loop" /\ idx = 1 /\ last = NoLast
    /\ disk # NoMeta
    /\ \E f \in Fields :
          /\ disk[f].prev_hash # None
          /\ disk[f].hash # meta[f].hash
          /\ meta[f].prev_hash = disk[f].prev_hash
          /\ meta[f].prev_contents = disk[f].prev_contents
          /\ meta[f].prev_hash # meta[f].hash

\* C26: a field whose final content was obtained is written to its target
\* (the local file in pull, the remote record in push and watch) before
\* update_field_meta is called for it, the record is saved after the loop
\* over the fields, and update_field_meta is called once for such a field
\* and not at all for a field that was NOCHANGE or skipped.
C26_PersistThenCloseThenSave ==
    /\ [](\A i, j \in 1 .. Len(comparison) :
            comparison[i].name = comparison[j].name => i = j)
    /\ [][/\ (mode = "pull" /\ pc = "loop" /\ idx' = idx + 1)
             => LET name == comparison[idx].name
                IN  /\ disk' = disk
                    /\ IF last'.saved # None
                       THEN /\ lfile'[name] = last'.saved
                            /\ last'.ufm
                            /\ meta' = update_field_meta(meta, name)
                       ELSE /\ ~last'.ufm
                            /\ meta' = meta
                            /\ lfile' = lfile
          /\ (/\ mode \in {"push", "watch"} /\ pc = "loop"
              /\ (pc' = "refetch" \/ idx' = idx + 1))
             => LET name == comparison[idx].name
                IN  /\ disk' = disk
                    /\ meta' = meta
                    /\ ~last'.ufm
                    /\ IF last'.sent # None
                       THEN /\ pc' = "refetch" /\ idx' = idx
                            /\ remote'[name] = last'.sent
                            /\ lfile'[name] = last'.sent
                       ELSE /\ pc' = "loop"
                            /\ remote' = remote
                            /\ lfile' = lfile
          /\ (pc = "refetch" /\ pc' = "loop")
             => LET name == comparison[idx].name
                IN  /\ last.sent # None /\ ~last.ufm /\ last.name = name
                    /\ last'.ufm
                    /\ meta'[name].prev_hash = meta'[name].hash
                    /\ meta'[name].prev_contents = meta'[name].contents
                    /\ idx' = idx + 1
                    /\ disk' = disk
          /\ disk' # disk
             => /\ pc = "loop" /\ idx > Len(comparison)
                /\ disk' = meta
         ]_vars

\* push has sent the second field of the record, fetched the record again
\* and called update_field_meta; the record is not saved yet
C26_Witness ==
    /\ mode = "push" /\ pc = "loop" /\ idx = 3
    /\ last.op = "push"
    /\ last.sent # None
    /\ last.ufm
    /\ disk # meta

\* C27 as stated: every call of resolve_conflict made by pull, push or the
\* watch handler is given a base text, the field's recorded baseline.
C27_ResolveHasBaseline ==
    (last.op \in {"pull", "push", "watch"} /\ last.resolved)
    => /\ last.args.base # None
       /\ last.pre_field.prev_hash # None
       /\ last.args.base = last.pre_field.prev_contents

\* the first push of a record whose local file differs from the remote
\* field: resolve_conflict was called with base None, the operator chose
\* merge and the run ended in the exception of None.splitlines
C27_Witness ==
    /\ last.op = "push" /\ last.resolved
    /\ last.status = ModREMOTE
    /\ last.pre_field.prev_hash = None
    /\ last.args.base = None
    /\ last.answer = "m"
    /\ last.result = Raise
    /\ disk = NoMeta

\* C28 as stated: when push or the watch handler sends a field that was
\* classified LOCAL to the remote record without resolve_conflict, the
\* remote hash stored for the field equals its baseline hash, for the
\* first field of the record and for the later ones.
C28_DirectPushOnBaseline ==
    (/\ last.op \in {"push", "watch"}
     /\ last.status = ModLOCAL
     /\ ~last.resolved
     /\ last.sent # None)
    => last.pre_field.hash = last.pre_field.prev_hash

\* push has sent its second field as LOCAL although the value fetched after
\* the first field was sent is not the baseline: a remote edit is replaced
C28_Witness ==
    /\ last.op = "push" /\ idx = 2
    /\ last.status = ModLOCAL /\ ~last.resolved
    /\ last.sent # None
    /\ last.pre_field.hash # last.pre_field.prev_hash
    /\ last.pre_remote # last.sent
    /\ last.pre_remote = last.pre_field.contents
    /\ last.post_remote = last.sent

\* The merge reported a conflict and the operator's edit was not saved or
\* came back empty.
NoFinalText(o) ==
    /\ o.op \in {"pull", "push", "watch"}
    /\ o.resolved /\ o.answer = "m"
    /\ o.args.base # None
    /\ o.input.merged.had_conflict
    /\ o.input.edited \in {None, Empty}

\* C29 as stated: after a merge conflict an edit that was not saved or that
\* is empty is neither written to the local file nor sent to the remote
\* record, and update_field_meta is not called for the field.
C29_UnfinishedEditNotPersisted ==
    NoFinalText(last)
    => /\ last.saved = None
       /\ last.sent = None
       /\ ~last.ufm
       /\ last.post_file = last.pre_file
       /\ last.post_remote = last.pre_remote

\* pull has written the empty text the editor returned over the local file
\* and closed the field
C29_Witness ==
    /\ NoFinalText(last)
    /\ last.op = "pull"
    /\ last.input.edited = Empty
    /\ last.pre_file # Empty
    /\ last.post_file = Empty
    /\ last.ufm

\* The handler has written and sent p and closed it, and both sides of p
\* are as the handler left them: an event of p in the queue is the one of
\* the handler's own file.save.
OwnWrite(p) ==
    /\ closed[p] # Open /\ closed[p][1] = "watch"
    /\ remote[p] = meta[p].contents
    /\ lfile[p] = remote[p]

\* C30: the handler that wrote a file leaves the file, the remote field and
\* the stored hash in agreement unless somebody edits in between; the
\* event of the handler's own write is then classified NOCHANGE; a
\* NOCHANGE entry makes the handler write nothing, send nothing and queue
\* no event; and once the edits have stopped the queue runs empty and the
\* handler stays idle.
C30_OwnWriteIsQuiescent ==
    /\ [][/\ (/\ mode = "watch" /\ pc = "refetch" /\ pc' = "loop"
              /\ lfile[last.name] = last.saved
              /\ remote[last.name] = last.sent)
             => /\ last.name \in events
                /\ lfile'[last.name] = remote'[last.name]
                /\ meta'[last.name].contents = remote'[last.name]
                /\ meta'[last.name].hash = MD5(lfile'[last.name])
                /\ closed'[last.name][1] = "watch"
          /\ (mode = "watch" /\ pc = "wait" /\ pc' = "loop")
             => \A p \in Fields :
                   (p \in events /\ p \notin events' /\ OwnWrite(p))
                   => /\ Len(comparison') = 1
                      /\ comparison'[1].name = p
                      /\ comparison'[1].status = ModNOCHANGE
          /\ (/\ mode = "watch" /\ pc = "loop" /\ idx' = idx + 1
              /\ comparison[idx].status = ModNOCHANGE)
             => /\ lfile' = lfile
                /\ remote' = remote
                /\ events' = events
                /\ disk' = disk
         ]_vars
    /\ <>[]((mode = "watch" /\ pc # "dead") => (pc = "wait" /\ events = {}))

\* the handler was called for the event of its own write and compare has
\* classified the file NOCHANGE
C30_Witness ==
    /\ mode = "watch" /\ pc = "loop" /\ idx = 1 /\ last = NoLast
    /\ Len(comparison) = 1
    /\ comparison[1].status = ModNOCHANGE
    /\ closed[comparison[1].name] # Open
    /\ closed[comparison[1].name][1] = "watch"

\* C31 as stated: a record that load_record has built is new when its
\* document was absent and not new when its meta was loaded from the
\* document.
C31_NewIffNoDocument ==
    (NewKey /\ Load.out = "returned")
    => (is_new(cache.records[Load.key]) <=> Load.doc.kind = "absent")

\* scan has built a record from a document on disk and is_new() is true
C31_Witness ==
    /\ NewKey /\ Load.out = "returned"
    /\ Load.doc.kind = "json"
    /\ Load.meta # <<>>
    /\ is_new(cache.records[Load.key])

\* The bound fields get_files is to return: all of them when no files are
\* given, those whose file is listed otherwise.
Wanted(bound, files) ==
    IF ~files.given \/ files.paths = <<>> THEN bound
    ELSE SelectSeq(bound, LAMBDA f : \E i \in 1 .. Len(files.paths) :
                                        files.paths[i] = f)

\* C32 as stated: get_files(files) returns, for a record with one bound
\* field or more, the bound fields whose file is among files, or all of
\* them when no files are given.
C32_GetFilesFilters ==
    cache.pc = "returned"
    => /\ cache.ret.raised = "no"
       /\ cache.ret.files = Wanted(cache.bound, cache.files)

\* get_files was called on a record with two bound files and a list that
\* names one of them, and ended in NameError after the first field
C32_Witness ==
    /\ cache.pc = "returned"
    /\ Len(cache.bound) = 2
    /\ cache.files = Listed(<<cache.bound[2]>>)
    /\ cache.ret.raised = "NameError"
    /\ cache.ret.files = <<cache.bound[1]>>

====
